---- MODULE Spec2Model ----
(* Conway's Game of Life on a bounded grid: the GameOfLife engine of        *)
(* src/life.py (live-cell set, generation counter, pattern file) as a state *)
(* machine, with the properties stated of it.                               *)
EXTENDS Integers, Sequences, FiniteSets, TLC

\* ------------------------------------------------------------------ bounds

\* Largest grid side and largest number of grid cells drawn at construction.
MaxSide == 3
MaxCells == 4
\* next_generation is not called once generation has reached this value.
MaxGen == 2
\* toggle_cell is not called with an out-of-range cell once this many
\* out-of-range cells are live.
MaxOutside == 1
\* Largest number of cells of the grids on which one step is compared with
\* the full-grid rule.
MaxStepCells == 9
\* The blinker's and the glider's grids: largest side, and the generation at
\* which their runs are cut.
MaxBlinkerSide == 6
MaxGliderSide == 8
MaxRunGen == 30
\* The file operations' specification: largest grid side, largest number of
\* grid cells, and the longest pattern file written outside the program.
MaxFileSide == 2
MaxFileCells == 2
MaxLines == 2
\* Largest width and height given to the constructor when any integers are.
MaxConstructSide == 2

VARIABLES
    width,       \* self.width
    height,      \* self.height
    live_cells,  \* self.live_cells: a set of <<x, y>>
    generation,  \* self.generation
    paused,      \* self.paused: set at construction, read and written by main() only
    file,        \* patterns.txt: [exists : BOOLEAN, lines : Seq(line)]
    lastOp,      \* the operation that produced this state
    args,        \* the (x, y) or the density that operation was called with, or <<>>
    raised       \* the exception the last operation ended with, or "none"

vars == <<width, height, live_cells, generation, paused, file, lastOp, args,
          raised>>

\* ------------------------------------------------------------- the engine

\* 0 <= x < self.width and 0 <= y < self.height
InBounds(x, y, w, h) == 0 <= x /\ x < w /\ 0 <= y /\ y < h

\* [-1, 0, 1], the range of dx and of dy
Offsets == {-1, 0, 1}

\* The cells of range(self.width) x range(self.height)
Grid(w, h) == (0 .. w - 1) \X (0 .. h - 1)

count_live_neighbors_unbounded(live, w, h, x, y) ==
    Cardinality({ d \in Offsets \X Offsets :
        /\ ~(d[1] = 0 /\ d[2] = 0)
        /\ <<x + d[1], y + d[2]>> \in live })

count_live_neighbors_wrapping(live, w, h, x, y) ==
    Cardinality({ d \in Offsets \X Offsets :
        /\ ~(d[1] = 0 /\ d[2] = 0)
        /\ <<(x + d[1]) % w, (y + d[2]) % h>> \in live })

count_live_neighbors_with_self(live, w, h, x, y) ==
    Cardinality({ d \in Offsets \X Offsets :
        /\ InBounds(x + d[1], y + d[2], w, h)
        /\ <<x + d[1], y + d[2]>> \in live })

\* One increment of count per offset (dx, dy) that passes the three tests.
count_live_neighbors(live, w, h, x, y) ==
    Cardinality({ d \in Offsets \X Offsets :
        /\ ~(d[1] = 0 /\ d[2] = 0)
        /\ InBounds(x + d[1], y + d[2], w, h)
        /\ <<x + d[1], y + d[2]>> \in live })

candidates_unbounded(live, w, h) ==
    { <<c[1] + d[1], c[2] + d[2]>> : c \in live, d \in Offsets \X Offsets }

candidates_live_only(live, w, h) ==
    { c \in live : InBounds(c[1], c[2], w, h) }

\* The live cells and their neighbours, those inside the grid only.
candidates(live, w, h) ==
    { n \in { <<c[1] + d[1], c[2] + d[2]>> : c \in live, d \in Offsets \X Offsets } :
        InBounds(n[1], n[2], w, h) }

new_live_cells_whole_grid_born_below_4(live, w, h) ==
    { c \in Grid(w, h) :
        LET live_neighbors == count_live_neighbors(live, w, h, c[1], c[2])
        IN  \/ c \in live /\ live_neighbors \in {2, 3}
            \/ c \notin live /\ live_neighbors <= 3 }

new_live_cells_toroidal(live, w, h) ==
    { c \in Grid(w, h) :
        LET n == count_live_neighbors_wrapping(live, w, h, c[1], c[2])
        IN  \/ c \in live /\ n \in {2, 3}
            \/ c \notin live /\ n = 3 }

\* Conway's rules over the candidates, read from the set before the step.
new_live_cells(live, w, h) ==
    { c \in candidates(live, w, h) :
        LET live_neighbors == count_live_neighbors(live, w, h, c[1], c[2])
        IN  \/ c \in live /\ live_neighbors \in {2, 3}
            \/ c \notin live /\ live_neighbors = 3 }

toggled_add_only(live, x, y) == live \cup {<<x, y>>}

\* remove (x, y) when it is live, add it otherwise
toggled(live, x, y) ==
    IF <<x, y>> \in live THEN live \ {<<x, y>>} ELSE live \cup {<<x, y>>}

\* The live cells outside the grid.
Outside(live, w, h) == { c \in live : ~InBounds(c[1], c[2], w, h) }

\* ------------------------------------------------------- the pattern file
\* A line is a sequence of characters, each a one-character string.

DigitChars == <<"0", "1", "2", "3", "4", "5", "6", "7", "8", "9">>
Digits == { DigitChars[i] : i \in 1 .. 10 }
DigitValue(ch) == (CHOOSE i \in 1 .. 10 : DigitChars[i] = ch) - 1
Whitespace == {" ", "\t", "\n", "\r"}

\* str(n) for n >= 0
RECURSIVE NatToStr(_)
NatToStr(n) ==
    IF n < 10 THEN <<DigitChars[n + 1]>>
    ELSE NatToStr(n \div 10) \o <<DigitChars[(n % 10) + 1]>>

\* str(n): Python's decimal text of an int
IntToStr(n) == IF n < 0 THEN <<"-">> \o NatToStr(-n) ELSE NatToStr(n)

\* f"{x},{y}\n"
format_line(c) == IntToStr(c[1]) \o <<",">> \o IntToStr(c[2]) \o <<"\n">>

\* Tuple order of Python: x first, then y.
TupleLess(c, d) == c[1] < d[1] \/ (c[1] = d[1] /\ c[2] < d[2])

RECURSIVE sorted_y_first(_)
sorted_y_first(cells) ==
    IF cells = {} THEN <<>>
    ELSE LET least == CHOOSE c \in cells : \A d \in cells \ {c} :
                          TupleLess(<<c[2], c[1]>>, <<d[2], d[1]>>)
         IN  <<least>> \o sorted_y_first(cells \ {least})

\* sorted(self.live_cells)
RECURSIVE sorted(_)
sorted(cells) ==
    IF cells = {} THEN <<>>
    ELSE LET least == CHOOSE c \in cells : \A d \in cells \ {c} : TupleLess(c, d)
         IN  <<least>> \o sorted(cells \ {least})

\* The lines save_pattern writes, in the order it writes them.
saved_lines(live) ==
    LET cells == sorted(live)
    IN  [i \in 1 .. Len(cells) |-> format_line(cells[i])]

\* str.strip()
RECURSIVE lstrip(_)
lstrip(s) ==
    IF s = <<>> THEN s
    ELSE IF Head(s) \in Whitespace THEN lstrip(Tail(s)) ELSE s

RECURSIVE rstrip(_)
rstrip(s) ==
    IF s = <<>> THEN s
    ELSE IF s[Len(s)] \in Whitespace THEN rstrip(SubSeq(s, 1, Len(s) - 1)) ELSE s

strip(s) == rstrip(lstrip(s))

\* str.split(','): the pieces between the commas, empty pieces included
RECURSIVE split(_)
split(s) ==
    IF \A i \in 1 .. Len(s) : s[i] # ","
    THEN <<s>>
    ELSE LET i == CHOOSE k \in 1 .. Len(s) :
                      s[k] = "," /\ \A j \in 1 .. k - 1 : s[j] # ","
         IN  <<SubSeq(s, 1, i - 1)>> \o split(SubSeq(s, i + 1, Len(s)))

\* The text of int(s) after its surrounding whitespace and its sign.
Unsigned(s) ==
    LET t == strip(s)
    IN  IF t # <<>> /\ Head(t) \in {"+", "-"} THEN Tail(t) ELSE t

\* Whether int(s) returns: digits, with single underscores between digits.
IsInt(s) ==
    LET u == Unsigned(s)
    IN  /\ u # <<>>
        /\ u[1] \in Digits
        /\ u[Len(u)] \in Digits
        /\ \A i \in 1 .. Len(u) : u[i] \in Digits \cup {"_"}
        /\ \A i \in 1 .. Len(u) - 1 : ~(u[i] = "_" /\ u[i + 1] = "_")

RECURSIVE NatValue(_, _)
NatValue(u, acc) ==
    IF u = <<>> THEN acc
    ELSE IF Head(u) = "_" THEN NatValue(Tail(u), acc)
    ELSE NatValue(Tail(u), 10 * acc + DigitValue(Head(u)))

\* int(s), where IsInt(s)
IntValue(s) ==
    LET t == strip(s)
    IN  IF Head(t) = "-" THEN 0 - NatValue(Unsigned(s), 0)
        ELSE NatValue(Unsigned(s), 0)

\* Whether  x, y = map(int, line.split(','))  returns: two pieces, both ints.
Parses(line) ==
    LET parts == split(line)
    IN  Len(parts) = 2 /\ IsInt(parts[1]) /\ IsInt(parts[2])

\* The loop of load_pattern over the lines left, from the cells added so far:
\* the cells when it ends, and the exception that ended it.
RECURSIVE load_lines(_, _, _, _)
load_lines(lines, live, w, h) ==
    IF lines = <<>> THEN [live |-> live, raised |-> "none"]
    ELSE LET line == strip(Head(lines))
         IN  IF line = <<>> THEN load_lines(Tail(lines), live, w, h)
             ELSE IF ~Parses(line) THEN [live |-> live, raised |-> "ValueError"]
             ELSE LET x == IntValue(split(line)[1])
                      y == IntValue(split(line)[2])
                  IN  IF InBounds(x, y, w, h)
                      THEN load_lines(Tail(lines), live \cup {<<x, y>>}, w, h)
                      ELSE load_lines(Tail(lines), live, w, h)

\* Lines a pattern file written by hand or by another program may hold:
\* "0,0", " 1,0 ", "+1,01", a blank line, "a,b" and "100,100".
SampleLines ==
    { <<"0", ",", "0", "\n">>,
      <<" ", "1", ",", "0", " ", "\n">>,
      <<"+", "1", ",", "0", "1", "\n">>,
      <<"\n">>,
      <<"a", ",", "b", "\n">>,
      <<"1", "0", "0", ",", "1", "0", "0", "\n">> }

RECURSIVE SeqsUpTo(_, _)
SeqsUpTo(S, n) ==
    IF n = 0 THEN {<<>>}
    ELSE LET shorter == SeqsUpTo(S, n - 1)
         IN  shorter \cup { Append(q, e) : q \in shorter, e \in S }

\* The contents patterns.txt is given outside the program.
PatternFiles == SeqsUpTo(SampleLines, MaxLines)

\* ------------------------------------------------------------- operations

NoFile == [exists |-> FALSE, lines |-> <<>>]

\* GameOfLife(width, height): any grid within the bounds, nothing alive.
Init ==
    /\ width \in 1 .. MaxSide
    /\ height \in 1 .. MaxSide
    /\ width * height <= MaxCells
    /\ live_cells = {}
    /\ generation = 0
    /\ paused = TRUE
    /\ file = NoFile
    /\ lastOp = "init"
    /\ args = <<>>
    /\ raised = "none"

\* random.random(), a float of [0.0, 1.0), and density, in tenths: the default
\* 0.2, the ends 0 and 1 of the range, and a value on either side of it.
RandomTenths == 0 .. 9
Densities == {-5, 0, 2, 10, 15}

\* The sets the loop can build: random.random() < density decides each cell
\* of the grid on its own, so every cell is chosen when the test cannot fail,
\* none when it cannot pass, and any cells otherwise.
random_cells(density, w, h) ==
    LET outcomes == { r < density : r \in RandomTenths }
    IN  IF outcomes = {TRUE} THEN { Grid(w, h) }
        ELSE IF outcomes = {FALSE} THEN { {} }
        ELSE SUBSET Grid(w, h)

initialize_random_adding(density) ==
    /\ \E chosen \in random_cells(density, width, height) :
           live_cells' = live_cells \cup chosen
    /\ lastOp' = "initialize_random"
    /\ args' = <<density>>
    /\ raised' = "none"
    /\ UNCHANGED <<width, height, generation, paused, file>>

\* No test of density, and no assignment to generation.
initialize_random(density) ==
    /\ \E chosen \in random_cells(density, width, height) : live_cells' = chosen
    /\ lastOp' = "initialize_random"
    /\ args' = <<density>>
    /\ raised' = "none"
    /\ UNCHANGED <<width, height, generation, paused, file>>

clear_keeping_generation ==
    /\ live_cells' = {}
    /\ generation' = generation
    /\ lastOp' = "clear"
    /\ args' = <<>>
    /\ raised' = "none"
    /\ UNCHANGED <<width, height, paused, file>>

clear ==
    /\ live_cells' = {}
    /\ generation' = 0
    /\ lastOp' = "clear"
    /\ args' = <<>>
    /\ raised' = "none"
    /\ UNCHANGED <<width, height, paused, file>>

next_generation_keeping_generation(cap) ==
    /\ generation < cap
    /\ live_cells' = new_live_cells(live_cells, width, height)
    /\ generation' = generation
    /\ lastOp' = "next_generation"
    /\ args' = <<>>
    /\ raised' = "none"
    /\ UNCHANGED <<width, height, paused, file>>

\* One call; the model stops calling once generation has reached cap.
next_generation(cap) ==
    /\ generation < cap
    /\ live_cells' = new_live_cells(live_cells, width, height)
    /\ generation' = generation + 1
    /\ lastOp' = "next_generation"
    /\ args' = <<>>
    /\ raised' = "none"
    /\ UNCHANGED <<width, height, paused, file>>

\* Any integers are accepted; the model draws them from the grid and the ring
\* of cells around it.
toggle_cell(x, y) ==
    /\ \/ InBounds(x, y, width, height)
       \/ <<x, y>> \in live_cells
       \/ Cardinality(Outside(live_cells, width, height)) < MaxOutside
    /\ live_cells' = toggled(live_cells, x, y)
    /\ lastOp' = "toggle_cell"
    /\ args' = <<x, y>>
    /\ raised' = "none"
    /\ UNCHANGED <<width, height, generation, paused, file>>

\* The engine's in-memory operations, on every grid within the bounds.
Next ==
    \/ \E density \in Densities : initialize_random(density)
    \/ clear
    \/ next_generation(MaxGen)
    \/ \E x \in -1 .. width, y \in -1 .. height : toggle_cell(x, y)

Spec == Init /\ [][Next]_vars

\* with open(filename, 'w'): one line per live cell, sorted
save_pattern ==
    /\ file' = [exists |-> TRUE, lines |-> saved_lines(live_cells)]
    /\ lastOp' = "save_pattern"
    /\ args' = <<>>
    /\ raised' = "none"
    /\ UNCHANGED <<width, height, live_cells, generation, paused>>

load_pattern_keeping_cells ==
    /\ LET loaded == IF file.exists
                     THEN load_lines(file.lines, live_cells, width, height)
                     ELSE [live |-> live_cells, raised |-> "none"]
       IN  /\ live_cells' = loaded.live
           /\ raised' = loaded.raised
    /\ generation' = 0
    /\ lastOp' = "load_pattern"
    /\ args' = <<>>
    /\ UNCHANGED <<width, height, paused, file>>

load_pattern_not_found_uncaught ==
    /\ LET loaded == IF file.exists
                     THEN load_lines(file.lines, {}, width, height)
                     ELSE [live |-> {}, raised |-> "FileNotFoundError"]
       IN  /\ live_cells' = loaded.live
           /\ raised' = loaded.raised
    /\ generation' = 0
    /\ lastOp' = "load_pattern"
    /\ args' = <<>>
    /\ UNCHANGED <<width, height, paused, file>>

\* self.clear(), then the file's lines; FileNotFoundError is caught, the
\* ValueError of a line that does not parse is not.
load_pattern ==
    /\ LET loaded == IF file.exists
                     THEN load_lines(file.lines, {}, width, height)
                     ELSE [live |-> {}, raised |-> "none"]
       IN  /\ live_cells' = loaded.live
           /\ raised' = loaded.raised
    /\ generation' = 0
    /\ lastOp' = "load_pattern"
    /\ args' = <<>>
    /\ UNCHANGED <<width, height, paused, file>>

\* patterns.txt is written outside the program.
write_pattern_file ==
    /\ \E lines \in PatternFiles :
           file' = [exists |-> TRUE, lines |-> lines]
    /\ lastOp' = "write_pattern_file"
    /\ args' = <<>>
    /\ raised' = "none"
    /\ UNCHANGED <<width, height, live_cells, generation, paused>>

\* patterns.txt is removed outside the program.
remove_pattern_file ==
    /\ file.exists
    /\ file' = NoFile
    /\ lastOp' = "remove_pattern_file"
    /\ args' = <<>>
    /\ raised' = "none"
    /\ UNCHANGED <<width, height, live_cells, generation, paused>>

\* GameOfLife(width, height) for the file operations: the small grids.
InitFile ==
    /\ width \in 1 .. MaxFileSide
    /\ height \in 1 .. MaxFileSide
    /\ width * height <= MaxFileCells
    /\ live_cells = {}
    /\ generation = 0
    /\ paused = TRUE
    /\ file = NoFile
    /\ lastOp = "init"
    /\ args = <<>>
    /\ raised = "none"

\* Every operation of the engine, and the pattern file's environment.
NextFile ==
    \/ \E density \in Densities : initialize_random(density)
    \/ clear
    \/ next_generation(MaxGen)
    \/ \E x \in -1 .. width, y \in -1 .. height : toggle_cell(x, y)
    \/ save_pattern
    \/ load_pattern
    \/ write_pattern_file
    \/ remove_pattern_file

SpecFile == InitFile /\ [][NextFile]_vars

\* ------------------------------------------- one save or load, any input

\* The cells next to the grid, where toggle_cell can put a live cell.
Ring(w, h) == ((-1 .. w) \X (-1 .. h)) \ Grid(w, h)

\* An engine as toggle_cell and next_generation can leave it, and patterns.txt
\* absent or as written outside the program.
InitPattern ==
    /\ width \in 1 .. MaxFileSide
    /\ height \in 1 .. MaxFileSide
    /\ width * height <= MaxFileCells
    /\ \E outside \in { o \in SUBSET Ring(width, height) : Cardinality(o) <= MaxOutside } :
       \E inside \in SUBSET Grid(width, height) :
           live_cells = inside \cup outside
    /\ generation \in {0, MaxGen}
    /\ paused = TRUE
    /\ file \in {NoFile} \cup { [exists |-> TRUE, lines |-> lines] : lines \in PatternFiles }
    /\ lastOp = "init"
    /\ args = <<>>
    /\ raised = "none"

NextPattern ==
    \/ save_pattern
    \/ load_pattern

SpecPattern == InitPattern /\ [][NextPattern]_vars

\* ---------------------------------------------------- one step, any input

\* An engine whose cells were set by toggle_cell: any cells of the grid, and
\* a few around it.
InitStep ==
    /\ width \in 1 .. MaxSide
    /\ height \in 1 .. MaxSide
    /\ width * height <= MaxStepCells
    /\ \E outside \in { o \in SUBSET Ring(width, height) : Cardinality(o) <= MaxOutside } :
       \E inside \in SUBSET Grid(width, height) :
           live_cells = inside \cup outside
    /\ generation = 0
    /\ paused = TRUE
    /\ file = NoFile
    /\ lastOp = "init"
    /\ args = <<>>
    /\ raised = "none"

NextStep == next_generation(MaxGen)

SpecStep == InitStep /\ [][NextStep]_vars

\* An engine in which toggle_cell has left a live cell outside the grid.
InitOutside ==
    /\ InitStep
    /\ Outside(live_cells, width, height) # {}

NextOutside == next_generation(MaxGen)

SpecOutside == InitOutside /\ [][NextOutside]_vars

\* -------------------------------------------------- construction, any input

\* GameOfLife(width, height) with any integers: no test of width or height.
InitConstruct ==
    /\ width \in -1 .. MaxConstructSide
    /\ height \in -1 .. MaxConstructSide
    /\ live_cells = {}
    /\ generation = 0
    /\ paused = TRUE
    /\ file = NoFile
    /\ lastOp = "init"
    /\ args = <<>>
    /\ raised = "none"

SpecConstruct == InitConstruct /\ [][Next]_vars

\* ------------------------------------------------------------ the blinker

\* test_blinker: game.live_cells = {(1, 2), (2, 2), (3, 2)}
BlinkerHorizontal == { <<1, 2>>, <<2, 2>>, <<3, 2>> }
\* test_blinker: expected = {(2, 1), (2, 2), (2, 3)}
BlinkerVertical == { <<2, 1>>, <<2, 2>>, <<2, 3>> }

InitBlinker ==
    /\ width \in 5 .. MaxBlinkerSide
    /\ height \in 5 .. MaxBlinkerSide
    /\ live_cells = BlinkerHorizontal
    /\ generation = 0
    /\ paused = TRUE
    /\ file = NoFile
    /\ lastOp = "init"
    /\ args = <<>>
    /\ raised = "none"

NextBlinker == next_generation(MaxRunGen)

SpecBlinker == InitBlinker /\ [][NextBlinker]_vars

\* ------------------------------------------------------------- the glider

\* A glider heading for the right and bottom edges (x and y both grow), its
\* 3 x 3 box at (ox, oy).
Glider(ox, oy) ==
    { <<ox + 1, oy>>, <<ox + 2, oy + 1>>,
      <<ox, oy + 2>>, <<ox + 1, oy + 2>>, <<ox + 2, oy + 2>> }

\* The glider is put one or two cells away from the left and top edges.
InitGlider ==
    /\ width \in 6 .. MaxGliderSide
    /\ height \in 6 .. MaxGliderSide
    /\ \E ox \in 1 .. 2, oy \in 1 .. 2 : live_cells = Glider(ox, oy)
    /\ generation = 0
    /\ paused = TRUE
    /\ file = NoFile
    /\ lastOp = "init"
    /\ args = <<>>
    /\ raised = "none"

NextGlider == next_generation(MaxRunGen)

SpecGlider == InitGlider /\ [][NextGlider]_vars

\* ------------------------------------------------------------- properties

Abs(n) == IF n < 0 THEN 0 - n ELSE n

\* The Moore neighbours of c that lie inside the grid.
MooreNeighbours(c, w, h) ==
    { m \in Grid(w, h) : m # c /\ Abs(m[1] - c[1]) <= 1 /\ Abs(m[2] - c[2]) <= 1 }

\* Conway's rule evaluated at every cell of the grid.
FullGridRule(S, w, h) ==
    { c \in Grid(w, h) :
        LET n == Cardinality(S \cap MooreNeighbours(c, w, h))
        IN  (c \in S /\ n \in {2, 3}) \/ (c \notin S /\ n = 3) }

\* C1: a call of next_generation on live cells that all lie inside the grid
\* replaces them by exactly the set the rule gives when it is evaluated at
\* every cell of the grid from the set before the call.
C1_StepIsFullGridRule ==
    [][(lastOp' = "next_generation" /\ live_cells \subseteq Grid(width, height))
        => live_cells' = FullGridRule(live_cells, width, height)]_vars

\* A step has turned the horizontal blinker of a 3 x 3 grid into the vertical
\* one: two cells that were dead and not live cells themselves were born.
C1_Witness ==
    /\ lastOp = "next_generation"
    /\ width = 3 /\ height = 3
    /\ live_cells = { <<1, 0>>, <<1, 1>>, <<1, 2>> }

\* C2: every live cell lies inside the grid, in every reachable state.
C2_LiveCellsInBounds ==
    \A c \in live_cells : InBounds(c[1], c[2], width, height)

\* C3: from the horizontal blinker on a grid of at least 5 x 5, the live cells
\* after an even number of steps are the horizontal blinker and after an odd
\* number the vertical one.
C3_BlinkerAlternates ==
    live_cells = IF generation % 2 = 0 THEN BlinkerHorizontal ELSE BlinkerVertical

\* Two steps were taken and the blinker is horizontal again.
C3_Witness ==
    /\ lastOp = "next_generation"
    /\ generation = 2
    /\ live_cells = BlinkerHorizontal

\* C4: every call of next_generation adds exactly 1 to generation.
C4_StepIncrementsGeneration ==
    [][lastOp' = "next_generation" => generation' = generation + 1]_vars

\* Two steps were taken from the empty set, the second one from generation 1.
C4_Witness ==
    /\ lastOp = "next_generation"
    /\ live_cells = {}
    /\ generation = 2

IsCorner(x, y, w, h) == x \in {0, w - 1} /\ y \in {0, h - 1}
IsEdge(x, y, w, h) == x \in {0, w - 1} \/ y \in {0, h - 1}

\* C5: for every cell (x, y) of the grid, count_live_neighbors is the number
\* of live cells among the Moore neighbours of (x, y) inside the grid (never
\* (x, y) itself, never a cell outside the grid or on the opposite edge); it
\* is at most 8, at most 3 at a corner and at most 5 on an edge.
C5_CountIsInGridMooreCount ==
    \A c \in Grid(width, height) :
        LET n == count_live_neighbors(live_cells, width, height, c[1], c[2])
        IN  /\ n = Cardinality(live_cells \cap MooreNeighbours(c, width, height))
            /\ n \in 0 .. 8
            /\ IsCorner(c[1], c[2], width, height) => n <= 3
            /\ IsEdge(c[1], c[2], width, height) => n <= 5

\* The whole 3 x 3 grid is live, and so is a cell outside it next to the
\* corner (0, 0): the corner counts 3, the edge cell (1, 0) 5, the centre 8.
C5_Witness ==
    /\ width = 3 /\ height = 3
    /\ live_cells = Grid(3, 3) \cup { <<-1, -1>> }
    /\ count_live_neighbors(live_cells, width, height, 0, 0) = 3
    /\ count_live_neighbors(live_cells, width, height, 1, 0) = 5
    /\ count_live_neighbors(live_cells, width, height, 1, 1) = 8

\* The 2 x 2 block: four live cells that fill a square.
IsBlock(live) ==
    /\ Cardinality(live) = 4
    /\ \E c \in live :
           live = { c, <<c[1] + 1, c[2]>>, <<c[1], c[2] + 1>>, <<c[1] + 1, c[2] + 1>> }

\* C6, as stated: the glider heading for the right and bottom edges dies and
\* no live cell appears on the opposite side (column 0, row 0). next_generation
\* being a function of the live cells, a glider that is to die is never in a
\* non-empty set that a step maps to itself.
C6_GliderDies ==
    /\ \A c \in live_cells : c[1] >= 1 /\ c[2] >= 1
    /\ new_live_cells(live_cells, width, height) = live_cells => live_cells = {}

\* C6, amended: no live cell appears on the opposite side (column 0, row 0),
\* the live cells never become empty, and when the run is cut they are a
\* 2 x 2 block against the right or the bottom edge that a step maps to
\* itself.
C6_GliderEndsAsBlock ==
    /\ \A c \in live_cells : c[1] >= 1 /\ c[2] >= 1
    /\ live_cells # {}
    /\ generation = MaxRunGen =>
           /\ IsBlock(live_cells)
           /\ \E c \in live_cells : c[1] = width - 1 \/ c[2] = height - 1
           /\ new_live_cells(live_cells, width, height) = live_cells

\* Steps have left a block against the right or the bottom edge.
C6_Witness ==
    /\ lastOp = "next_generation"
    /\ IsBlock(live_cells)
    /\ \E c \in live_cells : c[1] = width - 1 \/ c[2] = height - 1
    /\ new_live_cells(live_cells, width, height) = live_cells

\* C7: load_pattern called right after save_pattern, on the same engine,
\* leaves the live cells as they were.
C7_SaveLoadRoundTrip ==
    [][(lastOp = "save_pattern" /\ lastOp' = "load_pattern")
        => live_cells' = live_cells]_vars

\* C8: a load that ends with the parse error of a malformed line leaves no
\* live cell and generation 0.
C8_MalformedLoadLeavesCleared ==
    (lastOp = "load_pattern" /\ raised = "ValueError")
        => (live_cells = {} /\ generation = 0)

\* C9: toggle_cell with (x, y) outside the grid fails with OutOfBounds and
\* changes neither the live cells nor generation.
C9_ToggleOutOfBoundsFails ==
    [][(lastOp' = "toggle_cell" /\ ~InBounds(args'[1], args'[2], width, height))
        => /\ raised' = "OutOfBounds"
           /\ live_cells' = live_cells
           /\ generation' = generation]_vars

\* C10: toggle_cell(x, y) changes the membership of (x, y) and of no other
\* cell and leaves generation alone; a second toggle_cell(x, y) gives back the
\* live cells from before the first.
C10_ToggleFlipsOneCell ==
    [][lastOp' = "toggle_cell"
        => /\ (live_cells' \ live_cells) \cup (live_cells \ live_cells') = {args'}
           /\ generation' = generation
           /\ toggled(live_cells', args'[1], args'[2]) = live_cells]_vars

\* A toggle has removed a cell that was live, after a step.
C10_Witness ==
    /\ lastOp = "toggle_cell"
    /\ generation = 1
    /\ live_cells # {}
    /\ args \notin live_cells

\* C11: clear leaves no live cell and generation 0, and a clear that follows
\* a clear changes nothing of the engine.
C11_ClearIsIdempotent ==
    [][lastOp' = "clear"
        => /\ live_cells' = {}
           /\ generation' = 0
           /\ lastOp = "clear" =>
                  UNCHANGED <<width, height, live_cells, generation, paused, file>>]_vars

\* A clear has acted on a grid of 2 x 2.
C11_Witness ==
    /\ lastOp = "clear"
    /\ width = 2 /\ height = 2
    /\ live_cells = {}
    /\ generation = 0

\* C12, as stated: initialize_random with a density of [0, 1] leaves a subset
\* of the grid and generation 0.
C12_RandomizeResetsGeneration ==
    [][(lastOp' = "initialize_random" /\ args'[1] \in 0 .. 10)
        => /\ live_cells' \subseteq Grid(width, height)
           /\ generation' = 0]_vars

\* C12, amended: initialize_random with a density of [0, 1] leaves a subset of
\* the grid (no cell outside it, whatever was live before) and the generation
\* it found.
C12_RandomizeKeepsGeneration ==
    [][(lastOp' = "initialize_random" /\ args'[1] \in 0 .. 10)
        => /\ live_cells' \subseteq Grid(width, height)
           /\ generation' = generation]_vars

\* The default density has filled part of the grid after two steps.
C12_Witness ==
    /\ lastOp = "initialize_random"
    /\ args = <<2>>
    /\ generation = 2
    /\ live_cells # {}
    /\ live_cells # Grid(width, height)

\* C18: initialize_random with a density below 0 or above 1 fails with
\* InvalidDensity and changes neither the live cells nor generation.
C18_InvalidDensityFails ==
    [][(lastOp' = "initialize_random" /\ args'[1] \notin 0 .. 10)
        => /\ raised' = "InvalidDensity"
           /\ live_cells' = live_cells
           /\ generation' = generation]_vars

\* The decimal text of a one-digit integer, and the line "x,y" of a cell.
DecimalText(n) ==
    IF n < 0 THEN <<"-", DigitChars[1 - n]>> ELSE <<DigitChars[n + 1]>>
CellText(c) == DecimalText(c[1]) \o <<",">> \o DecimalText(c[2]) \o <<"\n">>

\* The well-formed lines of the pattern files and the cell each one names:
\* "0,0", " 1,0 ", "+1,01" and "100,100", and the line "x,y" of every cell of
\* the grid and of the ring around it.
LineTable ==
    { << <<"0", ",", "0", "\n">>, <<0, 0>> >>,
      << <<" ", "1", ",", "0", " ", "\n">>, <<1, 0>> >>,
      << <<"+", "1", ",", "0", "1", "\n">>, <<1, 1>> >>,
      << <<"1", "0", "0", ",", "1", "0", "0", "\n">>, <<100, 100>> >> }
    \cup { <<CellText(c), c>> : c \in (-1 .. MaxFileSide) \X (-1 .. MaxFileSide) }

IsBlank(line) == \A i \in 1 .. Len(line) : line[i] \in {" ", "\t", "\n", "\r"}

WellFormed(lines) ==
    \A i \in 1 .. Len(lines) :
        IsBlank(lines[i]) \/ \E p \in LineTable : p[1] = lines[i]

\* The cells the lines name.
Coordinates(lines) ==
    { p[2] : p \in { q \in LineTable : \E i \in 1 .. Len(lines) : lines[i] = q[1] } }

\* C13: after a load of a file of well-formed lines (blank lines allowed) the
\* live cells are exactly the cells the lines name that lie inside the grid,
\* generation is 0 and nothing was raised.
C13_LoadKeepsInRangeCells ==
    (lastOp = "load_pattern" /\ file.exists /\ WellFormed(file.lines))
        => /\ live_cells = { c \in Coordinates(file.lines) :
                                 0 <= c[1] /\ c[1] < width /\ 0 <= c[2] /\ c[2] < height }
           /\ generation = 0
           /\ raised = "none"

\* "100,100" and " 1,0 " were loaded into a grid of width 2: (1, 0) alone is
\* live.
C13_Witness ==
    /\ lastOp = "load_pattern"
    /\ width = 2
    /\ file.exists
    /\ file.lines = << <<"1", "0", "0", ",", "1", "0", "0", "\n">>,
                       <<" ", "1", ",", "0", " ", "\n">> >>
    /\ live_cells = { <<1, 0>> }

\* x first, then y.
LexLess(c, d) == c[1] < d[1] \/ (c[1] = d[1] /\ c[2] < d[2])

\* C14: save_pattern writes one line "x,y" per live cell and nothing else, no
\* cell twice, in strictly ascending order of (x, y), x first.
C14_SaveWritesSortedLines ==
    lastOp = "save_pattern"
        => /\ file.exists
           /\ Len(file.lines) = Cardinality(live_cells)
           /\ \A i \in 1 .. Len(file.lines) :
                  \E c \in live_cells : file.lines[i] = CellText(c)
           /\ \A i \in 1 .. Len(file.lines) - 1 :
                  \E c \in live_cells, d \in live_cells :
                      /\ file.lines[i] = CellText(c)
                      /\ file.lines[i + 1] = CellText(d)
                      /\ LexLess(c, d)

\* (0, 1) and (1, 0) were saved, in this order: by y first it is the other.
C14_Witness ==
    /\ lastOp = "save_pattern"
    /\ live_cells = { <<0, 1>>, <<1, 0>> }
    /\ file.lines = << <<"0", ",", "1", "\n">>, <<"1", ",", "0", "\n">> >>

\* C15: a load with patterns.txt missing raises nothing and leaves no live
\* cell and generation 0, and the engine takes further operations.
C15_MissingFileLeavesCleared ==
    (lastOp = "load_pattern" /\ ~file.exists)
        => /\ raised = "none"
           /\ live_cells = {}
           /\ generation = 0
           /\ ENABLED NextFile

\* A load has found no file, on the grid of width 2.
C15_Witness ==
    /\ lastOp = "load_pattern"
    /\ ~file.exists
    /\ width = 2
    /\ live_cells = {}

\* C16: a step from no live cell leaves no live cell and adds 1 to generation.
C16_EmptyStaysEmpty ==
    [][(lastOp' = "next_generation" /\ live_cells = {})
        => (live_cells' = {} /\ generation' = generation + 1)]_vars

\* Two steps in a row on a 3 x 3 grid with no live cell, as many as the run
\* allows.
C16_Witness ==
    /\ lastOp = "next_generation"
    /\ width = 3 /\ height = 3
    /\ live_cells = {}
    /\ generation = MaxGen

\* C17: no engine has a width or a height of 0 or less.
C17_DimensionsPositive == width > 0 /\ height > 0

\* C19: right after a step every live cell lies inside the grid.
C19_StepRestoresBounds ==
    lastOp = "next_generation"
        => \A c \in live_cells :
               0 <= c[1] /\ c[1] < width /\ 0 <= c[2] /\ c[2] < height

\* The first step from a set with a cell outside the grid has left a block in
\* a corner of the 3 x 3 grid.
C19_Witness ==
    /\ lastOp = "next_generation"
    /\ generation = 1
    /\ width = 3 /\ height = 3
    /\ live_cells = { <<0, 0>>, <<1, 0>>, <<0, 1>>, <<1, 1>> }

\* C20: a step gives what it gives from the live cells that lie inside the
\* grid: the live cells outside it change nothing.
C20_OutsideCellsHaveNoInfluence ==
    [][lastOp' = "next_generation"
        => live_cells' =
               new_live_cells(live_cells \cap Grid(width, height), width, height)]_vars

\* The first step from a set with a cell outside the grid has turned the
\* horizontal blinker of the 3 x 3 grid into the vertical one.
C20_Witness ==
    /\ lastOp = "next_generation"
    /\ generation = 1
    /\ width = 3 /\ height = 3
    /\ live_cells = { <<1, 0>>, <<1, 1>>, <<1, 2>> }

====
